---------------------------- MODULE Spec2Model ----------------------------
(***************************************************************************)
(* Axis-size resolution (bioimg_runtime/src/axis_size_resolver.rs) and the *)
(* model-interface validator (bioimg_runtime/src/model_interface.rs).      *)
(*                                                                         *)
(* Tensor ids and axis ids are small integers; a qualified axis id is the  *)
(* pair <<tensor_id, axis_id>>.  The specifications share the variables:   *)
(*   Spec       a caller runs SlotResolver::new(sizes) and then solve();   *)
(*   BuildSpec  a caller runs ModelInterface::try_build(inputs, outputs),  *)
(*              which runs the same resolver on the collected sizes;       *)
(*   RerunSpec  a caller runs new() + solve() twice, the second time on    *)
(*              the same list or on one that differs in offsets only;      *)
(*   PickSpec   the second run is driven by a loop that picks any          *)
(*              unresolved id instead of the greatest;                     *)
(*   ResolveSpec solve() followed call by call through step() and the      *)
(*              nested try_resolve calls;                                  *)
(*   PairSpec   two callers, each with a resolver of its own, whose calls  *)
(*              interleave;                                                *)
(*   CompatSpec a caller asks is_compatible_with_extent(size, extent).     *)
(* The Fair... specifications add the progress of the running call.        *)
(***************************************************************************)
EXTENDS Integers, Sequences, FiniteSets, TLC

VARIABLES
    call,             \* which entry point the caller invoked: "solve" | "try_build"
    pc,               \* position of the call
    sizes,            \* Vec<(QualifiedAxisId, AnyAxisSize)> handed to SlotResolver::new
    resolved_axes,    \* SlotResolver.resolved_axes   : HashMap<QualifiedAxisId, ResolvedAxisSize>
    unresolved_axes,  \* SlotResolver.unresolved_axes : BTreeMap<QualifiedAxisId, AxisSizeReference>
    lap,              \* parity of the number of step() calls made by solve()'s loop
    result,           \* what new()/solve() returned, once it has
    inputs,           \* Vec<InputSlot>  handed to try_build
    outputs,          \* Vec<OutputSlot> handed to try_build
    seen_tensor_ids,  \* try_build's local HashSet<&TensorId>
    build_result,     \* what try_build returned, once it has
    round,            \* 1 during the caller's first new() + solve(), 2 during its second
    first_sizes,      \* the list the first run was given
    first_result,     \* what the first run returned
    probe_size,       \* the ResolvedAxisSize is_compatible_with_extent is called on
    probe_extent,     \* its extent argument
    compatible,       \* what is_compatible_with_extent returned, once it has
    stack,            \* the try_resolve calls in progress, outermost first
    visited_ids,      \* try_resolve's `visited`, the OrderSet handed down the calls
    ret,              \* what the innermost try_resolve call returns, once it does
    peer              \* a second SlotResolver, owned by another caller

vars == <<call, pc, sizes, resolved_axes, unresolved_axes, lap, result,
          inputs, outputs, seen_tensor_ids, build_result,
          round, first_sizes, first_result, probe_size, probe_extent, compatible,
          stack, visited_ids, ret, peer>>

resolverVars == <<sizes, resolved_axes, unresolved_axes, lap, result>>
buildVars    == <<inputs, outputs, seen_tensor_ids, build_result>>
rerunVars    == <<round, first_sizes, first_result>>
probeVars    == <<probe_size, probe_extent, compatible>>
frameVars    == <<stack, visited_ids, ret>>
peerVars     == <<peer>>

---------------------------------------------------------------------------
(* Bounds and value universes                                              *)

MaxLen == 3          \* longest list handed to SlotResolver::new by Spec

TensorIds == {1, 2}
AxisIds   == {1, 2}
QualIds   == TensorIds \X AxisIds
Offsets   == {0}

SeqUpTo(S, n) == UNION {[1..k -> S] : k \in 0..n}

---------------------------------------------------------------------------
(* Axis sizes                                                              *)

Fixed(extent)            == [kind |-> "Fixed", extent |-> extent]
Parameterized(min, step) == [kind |-> "Parameterized", min |-> min, step |-> step]
Reference(qual_id, off)  == [kind |-> "Reference", qualified_axis_id |-> qual_id, offset |-> off]

ConcreteSizes  == {Fixed(4), Parameterized(2, 3)}
ReferenceSizes == {Reference(q, o) : q \in QualIds, o \in Offsets}
AnyAxisSizes   == ConcreteSizes \cup ReferenceSizes

IsResolvedSize(s) == s.kind \in {"Fixed", "Parameterized"}

\* (mutant) the test extent < min is missing
IsCompatibleWithExtent_NoGuard(size, extent) ==
    IF size.kind = "Fixed"
    THEN size.extent = extent
    ELSE (extent - size.min) % size.step = 0

\* (mutant) Fixed accepts every extent from the fixed one up
IsCompatibleWithExtent_AtLeast(size, extent) ==
    IF size.kind = "Fixed"
    THEN size.extent <= extent
    ELSE IF extent < size.min
         THEN FALSE
         ELSE (extent - size.min) % size.step = 0

\* ResolvedAxisSize::is_compatible_with_extent
IsCompatibleWithExtent(size, extent) ==
    IF size.kind = "Fixed"
    THEN size.extent = extent
    ELSE IF extent < size.min
         THEN FALSE
         ELSE (extent - size.min) % size.step = 0

---------------------------------------------------------------------------
(* Maps                                                                    *)

EmptyMap == [q \in {} |-> 0]

MapInsert(m, k, v) == [q \in (DOMAIN m) \cup {k} |-> IF q = k THEN v ELSE m[q]]
MapRemove(m, k)    == [q \in (DOMAIN m) \ {k} |-> m[q]]

\* Ord of QualifiedAxisId: lexicographic on (tensor_id, axis_id)
QualIdLess(p, q) == p[1] < q[1] \/ (p[1] = q[1] /\ p[2] < q[2])

\* (mutant) the key picked depends on the run: the greatest key in one
\* resolver, the least in the next
LastKey_PerRun(m) ==
    IF round = 1
    THEN CHOOSE k \in DOMAIN m : \A j \in (DOMAIN m) \ {k} : QualIdLess(j, k)
    ELSE CHOOSE k \in DOMAIN m : \A j \in (DOMAIN m) \ {k} : QualIdLess(k, j)

\* (mutant) first_key_value: the least key
LastKey_Least(m) == CHOOSE k \in DOMAIN m : \A j \in (DOMAIN m) \ {k} : QualIdLess(k, j)

\* BTreeMap::last_key_value: the greatest key
LastKey(m) == CHOOSE k \in DOMAIN m : \A j \in (DOMAIN m) \ {k} : QualIdLess(j, k)

\* OrderSet::insert returns false when the element is already there
Contains(seq, x) == \E i \in 1..Len(seq) : seq[i] = x

---------------------------------------------------------------------------
(* AxisSizeResolutionError                                                 *)

Loop(id)             == [kind |-> "Loop", id |-> id]
Unresolvable(visited) == [kind |-> "Unresolvable", visited |-> visited]
DuplicateId(id)      == [kind |-> "DuplicateId", id |-> id]

\* impl Display for AxisSizeResolutionError, the Unresolvable arm: each
\* component, followed by " -> " when another component follows.
RECURSIVE IdsPath(_, _)
IdsPath(visited, i) ==
    IF i > Len(visited)
    THEN <<>>
    ELSE <<visited[i]>>
         \o (IF i + 1 <= Len(visited) THEN <<" -> ">> ELSE <<>>)
         \o IdsPath(visited, i + 1)

Display(err) ==
    IF err.kind = "Loop"
    THEN <<"Loop detected when trying to resolve reference to ", err.id>>
    ELSE IF err.kind = "Unresolvable"
    THEN <<"Chain of axis references is unresolvable: ">> \o IdsPath(err.visited, 1)
    ELSE <<"Multiple axes with same ID: ", err.id>>

---------------------------------------------------------------------------
(* SlotResolver                                                            *)

\* (mutant) the value insert() returns is not looked at
DuplicateDetected_Never(res, unres, qual_id, inp_size) == FALSE

\* One iteration of the loop of SlotResolver::new: had the map the entry
\* goes to a value for this key already?
DuplicateDetected(res, unres, qual_id, inp_size) ==
    IF inp_size.kind = "Reference"
    THEN qual_id \in DOMAIN unres
    ELSE qual_id \in DOMAIN res

\* SlotResolver::new, from entry i on
RECURSIVE NewFrom(_, _, _, _)
NewFrom(szs, i, res, unres) ==
    IF i > Len(szs)
    THEN [ok |-> TRUE, resolved_axes |-> res, unresolved_axes |-> unres]
    ELSE LET qual_id  == szs[i][1]
             inp_size == szs[i][2]
         IN  IF DuplicateDetected(res, unres, qual_id, inp_size)
             THEN [ok |-> FALSE, err |-> DuplicateId(qual_id)]
             ELSE IF inp_size.kind = "Reference"
                  THEN NewFrom(szs, i + 1, res,
                               MapInsert(unres, qual_id,
                                         [qualified_axis_id |-> inp_size.qualified_axis_id,
                                          offset |-> inp_size.offset]))
                  ELSE NewFrom(szs, i + 1, MapInsert(res, qual_id, inp_size), unres)

SlotResolverNew(szs) == NewFrom(szs, 1, EmptyMap, EmptyMap)

\* (mutant) the stored value is the target's size moved by the offset
MoveToResolved_Shifted(res, unres, current, resolved) ==
    LET off == unres[current].offset
        shifted == IF resolved.kind = "Fixed"
                   THEN Fixed(resolved.extent + off)
                   ELSE Parameterized(resolved.min + off, resolved.step)
    IN  [resolved_axes   |-> MapInsert(res, current, shifted),
         unresolved_axes |-> MapRemove(unres, current)]

\* (mutant) the resolved value is stored under the target's key
MoveToResolved_UnderTarget(res, unres, current, resolved) ==
    [resolved_axes   |-> MapInsert(res, unres[current].qualified_axis_id, resolved),
     unresolved_axes |-> MapRemove(unres, current)]

\* What try_resolve stores for `current` after its target resolved
MoveToResolved(res, unres, current, resolved) ==
    [resolved_axes   |-> MapInsert(res, current, resolved),
     unresolved_axes |-> MapRemove(unres, current)]

\* (mutant) the error blames the id the chain started at
LoopAt_First(visited, current) == Loop(visited[1])

\* visited.insert(current) returned false: Err(Loop(current))
LoopAt(visited, current) == Loop(current)

\* (mutant) the first id handed down is not looked at
AlreadyVisited_ExceptFirst(visited, current) ==
    \E i \in 2..Len(visited) : visited[i] = current

\* !visited.insert(current): the id was in the set already
AlreadyVisited(visited, current) == Contains(visited, current)

\* SlotResolver::try_resolve; returns the outcome and the maps it leaves
RECURSIVE TryResolve(_, _, _, _)
TryResolve(res, unres, current, visited) ==
    IF current \in DOMAIN res
    THEN [ok |-> TRUE, value |-> res[current],
          resolved_axes |-> res, unresolved_axes |-> unres]
    ELSE IF AlreadyVisited(visited, current)
    THEN [ok |-> FALSE, err |-> LoopAt(visited, current),
          resolved_axes |-> res, unresolved_axes |-> unres]
    ELSE LET visited2 == Append(visited, current) IN
         IF current \notin DOMAIN unres
         THEN [ok |-> FALSE, err |-> Unresolvable(visited2),
               resolved_axes |-> res, unresolved_axes |-> unres]
         ELSE LET inner == TryResolve(res, unres, unres[current].qualified_axis_id, visited2) IN
              IF ~inner.ok
              THEN inner
              ELSE LET moved == MoveToResolved(inner.resolved_axes, inner.unresolved_axes,
                                               current, inner.value)
                   IN  [ok |-> TRUE, value |-> inner.value,
                        resolved_axes |-> moved.resolved_axes,
                        unresolved_axes |-> moved.unresolved_axes]

NoResult    == [status |-> "None"]
OkResult(m) == [status |-> "Ok", map |-> m]
ErrResult(e) == [status |-> "Err", err |-> e]

\* where a finished new()/solve() hands control
AfterSolve == IF call = "solve" THEN "done" ELSE "validate"

\* SlotResolver::new called directly
New ==
    /\ call = "solve"
    /\ pc = "new"
    /\ LET r == SlotResolverNew(sizes) IN
        IF r.ok
        THEN /\ resolved_axes' = r.resolved_axes
             /\ unresolved_axes' = r.unresolved_axes
             /\ result' = result
             /\ pc' = "solve"
        ELSE /\ result' = ErrResult(r.err)
             /\ pc' = "done"
             /\ UNCHANGED <<resolved_axes, unresolved_axes>>
    /\ UNCHANGED <<call, sizes, lap, buildVars, rerunVars, probeVars, frameVars, peerVars>>

\* (mutant) step() reports Done while one reference is still unresolved
NothingUnresolved_OneLeft(unres) == Cardinality(DOMAIN unres) <= 1

\* step(): last_key_value() finds no key
NothingUnresolved(unres) == DOMAIN unres = {}

\* One iteration of solve()'s loop: step(), then the match on its status
Step ==
    /\ pc = "solve"
    /\ lap' = 1 - lap
    /\ IF NothingUnresolved(unresolved_axes)
       THEN /\ result' = OkResult(resolved_axes)
            /\ pc' = AfterSolve
            /\ UNCHANGED <<resolved_axes, unresolved_axes>>
       ELSE LET key == LastKey(unresolved_axes)
                r   == TryResolve(resolved_axes, unresolved_axes, key, <<>>)
            IN  IF r.ok
                THEN /\ resolved_axes' = r.resolved_axes
                     /\ unresolved_axes' = r.unresolved_axes
                     /\ pc' = pc
                     /\ result' = result
                ELSE /\ result' = ErrResult(r.err)
                     /\ pc' = AfterSolve
                     /\ resolved_axes' = r.resolved_axes
                     /\ unresolved_axes' = r.unresolved_axes
    /\ UNCHANGED <<call, sizes, buildVars, rerunVars, probeVars, frameVars, peerVars>>

---------------------------------------------------------------------------
(* The caller of new() + solve()                                           *)

SizeEntries == QualIds \X AnyAxisSizes

\* no run before this one
FirstRun ==
    /\ round = 1
    /\ first_sizes = <<>>
    /\ first_result = NoResult

\* is_compatible_with_extent is not being asked
NoProbe ==
    /\ probe_size = [kind |-> "None"]
    /\ probe_extent = 0
    /\ compatible = FALSE

\* no try_resolve call is followed frame by frame
NoRet == [status |-> "None"]
NoFrames ==
    /\ stack = <<>>
    /\ visited_ids = <<>>
    /\ ret = NoRet

\* no second resolver
NoPeer == peer = [pc |-> "none"]

Init ==
    /\ call = "solve"
    /\ pc = "new"
    /\ sizes \in SeqUpTo(SizeEntries, MaxLen)
    /\ resolved_axes = EmptyMap
    /\ unresolved_axes = EmptyMap
    /\ lap = 0
    /\ result = NoResult
    /\ inputs = <<>>
    /\ outputs = <<>>
    /\ seen_tensor_ids = {}
    /\ build_result = NoResult
    /\ FirstRun
    /\ NoFrames
    /\ NoPeer
    /\ NoProbe

Next == New \/ Step

Spec == Init /\ [][Next]_vars

\* solve() is a plain loop on one thread: an iteration that can run, runs
FairSpec == Spec /\ WF_vars(New) /\ WF_vars(Step)

---------------------------------------------------------------------------
(* A caller that runs new() + solve() a second time                        *)

RerunOffsets == {0, 1}

\* the same entry with another offset in its reference, if it is one
WithOffset(entry, off) ==
    IF entry[2].kind = "Reference"
    THEN <<entry[1], Reference(entry[2].qualified_axis_id, off)>>
    ELSE entry

\* the lists that differ from szs in the offsets of their references only
OffsetVariants(szs) ==
    {[i \in 1..Len(szs) |-> WithOffset(szs[i], offs[i])] :
        offs \in [1..Len(szs) -> RerunOffsets]}

\* the first run has returned; the caller builds a new resolver on next_sizes
RerunWith(next_sizes) ==
    /\ call = "solve"
    /\ pc = "done"
    /\ round = 1
    /\ round' = 2
    /\ first_sizes' = sizes
    /\ first_result' = result
    /\ sizes' = next_sizes
    /\ resolved_axes' = EmptyMap
    /\ unresolved_axes' = EmptyMap
    /\ result' = NoResult
    /\ pc' = "new"
    /\ UNCHANGED <<call, lap, buildVars, probeVars, frameVars, peerVars>>

Rerun == \E next_sizes \in OffsetVariants(sizes) : RerunWith(next_sizes)

NextRerun == New \/ Step \/ Rerun

\* the lists of RerunSpec: three of the qualified ids, one concrete size
RerunIds     == {<<1, 1>>, <<1, 2>>, <<2, 1>>}
RerunEntries == RerunIds \X ({Fixed(4)} \cup {Reference(q, 0) : q \in RerunIds})

InitRerun ==
    /\ call = "solve"
    /\ pc = "new"
    /\ sizes \in SeqUpTo(RerunEntries, MaxLen)
    /\ resolved_axes = EmptyMap
    /\ unresolved_axes = EmptyMap
    /\ lap = 0
    /\ result = NoResult
    /\ inputs = <<>>
    /\ outputs = <<>>
    /\ seen_tensor_ids = {}
    /\ build_result = NoResult
    /\ FirstRun
    /\ NoFrames
    /\ NoPeer
    /\ NoProbe

RerunSpec == InitRerun /\ [][NextRerun]_vars

\* the second run on the very same list
RunAgain == \E next_sizes \in {sizes} : RerunWith(next_sizes)

\* the loop of solve() as the code has it, in the first run
StepFirst == round = 1 /\ Step

\* One iteration of a loop of solve() whose step() picks any key of
\* unresolved_axes instead of last_key_value(), in the second run
StepAny ==
    /\ pc = "solve"
    /\ round = 2
    /\ lap' = 1 - lap
    /\ IF NothingUnresolved(unresolved_axes)
       THEN /\ result' = OkResult(resolved_axes)
            /\ pc' = AfterSolve
            /\ UNCHANGED <<resolved_axes, unresolved_axes>>
       ELSE \E key \in DOMAIN unresolved_axes :
            LET r == TryResolve(resolved_axes, unresolved_axes, key, <<>>)
            IN  IF r.ok
                THEN /\ resolved_axes' = r.resolved_axes
                     /\ unresolved_axes' = r.unresolved_axes
                     /\ pc' = pc
                     /\ result' = result
                ELSE /\ result' = ErrResult(r.err)
                     /\ pc' = AfterSolve
                     /\ resolved_axes' = r.resolved_axes
                     /\ unresolved_axes' = r.unresolved_axes
    /\ UNCHANGED <<call, sizes, buildVars, rerunVars, probeVars, frameVars, peerVars>>

NextPick == New \/ StepFirst \/ RunAgain \/ StepAny

PickSpec == Init /\ [][NextPick]_vars

\* both loops run on one thread: an iteration that can run, runs
FairPickSpec ==
    PickSpec /\ WF_vars(New) /\ WF_vars(StepFirst) /\ WF_vars(RunAgain) /\ WF_vars(StepAny)

---------------------------------------------------------------------------
(* solve() followed call by call: step() calls try_resolve, which calls    *)
(* itself on the target of the reference it finds                          *)

OkRet(value) == [status |-> "Ok", value |-> value]
ErrRet(e)    == [status |-> "Err", err |-> e]

\* a try_resolve call in progress: its `current`, and the maps as they were
\* when it was entered
Frame(current, res, unres) ==
    [current |-> current, resolved_axes |-> res, unresolved_axes |-> unres]

Top == stack[Len(stack)]
Pop == SubSeq(stack, 1, Len(stack) - 1)

\* step(), up to its call of try_resolve: Done when last_key_value() finds
\* nothing, else try_resolve(key, OrderSet::new())
StepCall ==
    /\ call = "solve"
    /\ pc = "solve"
    /\ lap' = 1 - lap
    /\ IF NothingUnresolved(unresolved_axes)
       THEN /\ result' = OkResult(resolved_axes)
            /\ pc' = AfterSolve
            /\ UNCHANGED frameVars
       ELSE /\ stack' = <<Frame(LastKey(unresolved_axes), resolved_axes, unresolved_axes)>>
            /\ visited_ids' = <<>>
            /\ ret' = NoRet
            /\ pc' = "try_resolve"
            /\ result' = result
    /\ UNCHANGED <<call, sizes, resolved_axes, unresolved_axes,
                   buildVars, rerunVars, probeVars, peerVars>>

\* try_resolve from its entry to its first return or to its call of itself
TryResolveBody ==
    /\ pc = "try_resolve"
    /\ ret = NoRet
    /\ LET current == Top.current IN
       IF current \in DOMAIN resolved_axes
       THEN /\ ret' = OkRet(resolved_axes[current])
            /\ UNCHANGED <<stack, visited_ids>>
       ELSE IF AlreadyVisited(visited_ids, current)
       THEN /\ ret' = ErrRet(LoopAt(visited_ids, current))
            /\ UNCHANGED <<stack, visited_ids>>
       ELSE /\ visited_ids' = Append(visited_ids, current)
            /\ IF current \notin DOMAIN unresolved_axes
               THEN /\ ret' = ErrRet(Unresolvable(visited_ids'))
                    /\ stack' = stack
               ELSE /\ stack' = Append(stack, Frame(unresolved_axes[current].qualified_axis_id,
                                                    resolved_axes, unresolved_axes))
                    /\ ret' = ret
    /\ UNCHANGED <<call, pc, resolverVars, buildVars, rerunVars, probeVars, peerVars>>

\* (mutant) the id is taken out of unresolved_axes before the `?`
OnInnerErr_RemovesCurrent(res, unres, current) ==
    [resolved_axes |-> res, unresolved_axes |-> MapRemove(unres, current)]

\* the `?` on the inner call's error returns before any map is touched
OnInnerErr(res, unres, current) ==
    [resolved_axes |-> res, unresolved_axes |-> unres]

\* the inner call has returned to a try_resolve call: the `?`, then the
\* remove, the insert and Ok(resolved)
TryResolveResume ==
    /\ pc = "try_resolve"
    /\ ret # NoRet
    /\ Len(stack) >= 2
    /\ stack' = Pop
    /\ LET current == stack[Len(stack) - 1].current
           left == IF ret.status = "Err"
                   THEN OnInnerErr(resolved_axes, unresolved_axes, current)
                   ELSE MoveToResolved(resolved_axes, unresolved_axes, current, ret.value)
       IN  /\ resolved_axes' = left.resolved_axes
           /\ unresolved_axes' = left.unresolved_axes
    /\ UNCHANGED <<call, pc, sizes, lap, result, visited_ids, ret,
                   buildVars, rerunVars, probeVars, peerVars>>

\* try_resolve has returned to step(): the `?`, then Resolving(self), and the
\* match of solve() on it
StepReturn ==
    /\ pc = "try_resolve"
    /\ ret # NoRet
    /\ Len(stack) = 1
    /\ stack' = <<>>
    /\ visited_ids' = <<>>
    /\ ret' = NoRet
    /\ IF ret.status = "Err"
       THEN /\ result' = ErrResult(ret.err)
            /\ pc' = AfterSolve
       ELSE /\ result' = result
            /\ pc' = "solve"
    /\ UNCHANGED <<call, sizes, resolved_axes, unresolved_axes, lap,
                   buildVars, rerunVars, probeVars, peerVars>>

NextResolve == New \/ StepCall \/ TryResolveBody \/ TryResolveResume \/ StepReturn

InitResolve == InitRerun

ResolveSpec == InitResolve /\ [][NextResolve]_vars

\* one thread runs the calls: a call or return that can happen, happens
FairResolveSpec ==
    ResolveSpec /\ WF_vars(New) /\ WF_vars(StepCall) /\ WF_vars(TryResolveBody)
                /\ WF_vars(TryResolveResume) /\ WF_vars(StepReturn)

---------------------------------------------------------------------------
(* Two callers, each with a SlotResolver of its own, whose new() and       *)
(* step() calls interleave                                                 *)

MaxPairLen == 2      \* longest list of either caller of PairSpec

PairIds     == {<<1, 1>>, <<1, 2>>}
PairEntries == PairIds \X ({Fixed(4)} \cup {Reference(q, 0) : q \in PairIds})

\* (mutant) resolved_axes is one map shared by every resolver
PeerSelf_SharedResolved(p) ==
    [resolved_axes |-> resolved_axes, unresolved_axes |-> p.unresolved_axes]

\* `self` in the second caller's step(): the fields of its own SlotResolver
PeerSelf(p) ==
    [resolved_axes |-> p.resolved_axes, unresolved_axes |-> p.unresolved_axes]

\* SlotResolver::new called by the second caller
PeerNew ==
    /\ peer.pc = "new"
    /\ LET r == SlotResolverNew(peer.sizes) IN
        IF r.ok
        THEN peer' = [peer EXCEPT !.resolved_axes = r.resolved_axes,
                                  !.unresolved_axes = r.unresolved_axes,
                                  !.pc = "solve"]
        ELSE peer' = [peer EXCEPT !.result = ErrResult(r.err), !.pc = "done"]
    /\ UNCHANGED <<call, pc, resolverVars, buildVars, rerunVars, probeVars, frameVars>>

\* One iteration of the loop of the second caller's solve()
PeerStep ==
    /\ peer.pc = "solve"
    /\ LET self == PeerSelf(peer) IN
       IF NothingUnresolved(self.unresolved_axes)
       THEN peer' = [peer EXCEPT !.result = OkResult(self.resolved_axes), !.pc = "done"]
       ELSE LET key == LastKey(self.unresolved_axes)
                r   == TryResolve(self.resolved_axes, self.unresolved_axes, key, <<>>)
            IN  IF r.ok
                THEN peer' = [peer EXCEPT !.resolved_axes = r.resolved_axes,
                                          !.unresolved_axes = r.unresolved_axes]
                ELSE peer' = [peer EXCEPT !.resolved_axes = r.resolved_axes,
                                          !.unresolved_axes = r.unresolved_axes,
                                          !.result = ErrResult(r.err),
                                          !.pc = "done"]
    /\ UNCHANGED <<call, pc, resolverVars, buildVars, rerunVars, probeVars, frameVars>>

InitPair ==
    /\ call = "solve"
    /\ pc = "new"
    /\ sizes \in SeqUpTo(PairEntries, MaxPairLen)
    /\ resolved_axes = EmptyMap
    /\ unresolved_axes = EmptyMap
    /\ lap = 0
    /\ result = NoResult
    /\ inputs = <<>>
    /\ outputs = <<>>
    /\ seen_tensor_ids = {}
    /\ build_result = NoResult
    /\ FirstRun
    /\ NoFrames
    /\ NoProbe
    /\ \E peer_sizes \in SeqUpTo(PairEntries, MaxPairLen) :
        peer = [pc |-> "new", sizes |-> peer_sizes,
                resolved_axes |-> EmptyMap, unresolved_axes |-> EmptyMap,
                result |-> NoResult]

NextPair == New \/ Step \/ PeerNew \/ PeerStep

PairSpec == InitPair /\ [][NextPair]_vars

\* solve()'s loop run on its own for at most `fuel` iterations; NoResult when
\* it has not returned by then
RECURSIVE SolveLoop(_, _, _)
SolveLoop(res, unres, fuel) ==
    IF NothingUnresolved(unres)
    THEN OkResult(res)
    ELSE IF fuel = 0
    THEN NoResult
    ELSE LET r == TryResolve(res, unres, LastKey(unres), <<>>) IN
         IF r.ok
         THEN SolveLoop(r.resolved_axes, r.unresolved_axes, fuel - 1)
         ELSE ErrResult(r.err)

\* new(szs) and then solve(), run alone; an iteration that returns Resolving
\* takes at least one reference out or leaves the resolver as it was, so
\* Len(szs) iterations tell a loop that returns from one that never does
SolveAlone(szs) ==
    LET r == SlotResolverNew(szs) IN
    IF r.ok
    THEN SolveLoop(r.resolved_axes, r.unresolved_axes, Len(szs))
    ELSE ErrResult(r.err)

---------------------------------------------------------------------------
(* A caller of is_compatible_with_extent                                   *)

MaxExtent == 10      \* greatest extent, fixed size, min and step of CompatSpec

\* Fixed(f), and Parameterized{min, step} with a non-negative min and a
\* positive step
ProbeSizes ==
    {Fixed(f) : f \in 1..MaxExtent}
        \cup {Parameterized(min, step) : min \in 0..MaxExtent, step \in 1..MaxExtent}

InitCompat ==
    /\ call = "is_compatible_with_extent"
    /\ pc = "call"
    /\ probe_size \in ProbeSizes
    /\ probe_extent \in 0..MaxExtent
    /\ compatible = FALSE
    /\ sizes = <<>>
    /\ resolved_axes = EmptyMap
    /\ unresolved_axes = EmptyMap
    /\ lap = 0
    /\ result = NoResult
    /\ inputs = <<>>
    /\ outputs = <<>>
    /\ seen_tensor_ids = {}
    /\ build_result = NoResult
    /\ FirstRun
    /\ NoFrames
    /\ NoPeer

\* the call and its return
CallIsCompatible ==
    /\ call = "is_compatible_with_extent"
    /\ pc = "call"
    /\ compatible' = IsCompatibleWithExtent(probe_size, probe_extent)
    /\ pc' = "done"
    /\ UNCHANGED <<call, resolverVars, buildVars, rerunVars, probe_size, probe_extent,
                   frameVars, peerVars>>

NextCompat == CallIsCompatible

CompatSpec == InitCompat /\ [][NextCompat]_vars

---------------------------------------------------------------------------
(* Tensor slots                                                            *)

\* InputAxis::size / OutputAxis::size give None for a batch axis
NoSize == [kind |-> "None"]

Axis(id, size) == [id |-> id, size |-> size]

\* a processing step; reference_tensor = NoTensor is Option::None
NoTensor == 0
ScaleRange(ref)        == [kind |-> "ScaleRange", reference_tensor |-> ref]
ScaleMeanVariance(ref) == [kind |-> "ScaleMeanVariance", reference_tensor |-> ref]

\* InputSlot / OutputSlot: tensor_meta.id, tensor_meta.axes(), test_tensor.shape(),
\* tensor_meta.preprocessing() or .postprocessing()
Slot(id, axes, shape, procs) == [id |-> id, axes |-> axes, shape |-> shape, procs |-> procs]

---------------------------------------------------------------------------
(* TensorValidationError                                                   *)

EmptyInputs  == [kind |-> "EmptyInputs"]
EmptyOutputs == [kind |-> "EmptyOutputs"]
DuplicateTensorId(id) == [kind |-> "DuplicateTensorId", id |-> id]
AxisSizeResolutionError(e) == [kind |-> "AxisSizeResolutionError", source |-> e]
MismatchedNumDimensions(shape, n) ==
    [kind |-> "MismatchedNumDimensions", test_tensor_shape |-> shape, num_described_axes |-> n]
IncompatibleAxis(qual_id, dim_size, dim_index) ==
    [kind |-> "IncompatibleAxis", qualified_axis_id |-> qual_id,
     test_tensor_dim_size |-> dim_size, test_tensor_dim_index |-> dim_index]
InvalidTensorReference(ref) == [kind |-> "InvalidTensorReference", reference |-> ref]
\* size_map.get(&qual_id).unwrap() on a missing key
Panic == [kind |-> "Panic"]
NoError == [kind |-> "NoError"]

---------------------------------------------------------------------------
(* ModelInterface::try_build                                               *)

\* the tensor ids of a list of slots, in order
TensorIdsOf(slots) == [k \in 1..Len(slots) |-> slots[k].id]

\* the walk over inputs' then outputs' tensor ids that fills seen_tensor_ids
RECURSIVE SeenWalk(_, _, _)
SeenWalk(ids, k, seen) ==
    IF k > Len(ids)
    THEN [err |-> NoError, seen |-> seen]
    ELSE IF ids[k] \in seen
         THEN [err |-> DuplicateTensorId(ids[k]), seen |-> seen]
         ELSE SeenWalk(ids, k + 1, seen \cup {ids[k]})

\* (mutant) a batch axis has a size, Fixed(4)
SizeOf_BatchIsFixed(axis) == IF axis.size.kind = "None" THEN Fixed(4) ELSE axis.size

\* InputAxis::size / OutputAxis::size: None for a batch axis, else the size
\* the axis carries
SizeOf(axis) == axis.size

\* (mutant) the tensor id is left out of the qualified id
QualifiedAxisId_AxisOnly(tensor_id, axis_id) == <<1, axis_id>>

\* QualifiedAxisId{tensor_id: slot.tensor_meta.id.clone(), axis_id: axis.id()}
QualifiedAxisId(tensor_id, axis_id) == <<tensor_id, axis_id>>

\* qual_id_sizes of one slot, from axis i on: batch axes are filtered out
RECURSIVE SlotQualIdSizes(_, _)
SlotQualIdSizes(slot, i) ==
    IF i > Len(slot.axes)
    THEN <<>>
    ELSE (IF SizeOf(slot.axes[i]).kind = "None"
          THEN <<>>
          ELSE << <<QualifiedAxisId(slot.id, slot.axes[i].id), SizeOf(slot.axes[i])>> >>)
         \o SlotQualIdSizes(slot, i + 1)

\* VecInputSlotExt::qual_id_sizes / VecOutputSlotExt::qual_id_sizes
RECURSIVE QualIdSizes(_, _)
QualIdSizes(slots, k) ==
    IF k > Len(slots)
    THEN <<>>
    ELSE SlotQualIdSizes(slots[k], 1) \o QualIdSizes(slots, k + 1)

\* (mutant) the index reported for a dimension counts from one
DimIndex_FromOne(i) == i

\* test_tensor_shape.iter().enumerate(): the index of the i-th dimension
DimIndex(i) == i - 1

\* (mutant) only the axes that carry a size are counted
NumDescribedAxes_SizedOnly(slot) ==
    Cardinality({i \in 1..Len(slot.axes) : slot.axes[i].size.kind # "None"})

\* slot.tensor_meta.axes().len()
NumDescribedAxes(slot) == Len(slot.axes)

\* (mutant) a batch axis does not take a dimension from the iterator
DimCursor_SkipsBatch(slot, i) ==
    1 + Cardinality({j \in 1..i - 1 : slot.axes[j].size.kind # "None"})

\* test_tensor_dims.next() is called once for every axis, before the axis is
\* looked at: the i-th axis meets the i-th dimension
DimCursor(slot, i) == i

\* (mutant) dimensions left over after the last axis are an error
AxesExhausted_ChecksRank(slot) ==
    IF Len(slot.shape) > Len(slot.axes)
    THEN MismatchedNumDimensions(slot.shape, NumDescribedAxes(slot))
    ELSE NoError

\* the for loop over the axes ends: the dimensions iterator is not looked at
\* again
AxesExhausted(slot) == NoError

\* validate_resolution!, the inner loop over one slot's axes from axis i on
RECURSIVE ValidateAxes(_, _, _)
ValidateAxes(slot, i, size_map) ==
    IF i > Len(slot.axes)
    THEN AxesExhausted(slot)
    ELSE LET d == DimCursor(slot, i) IN
    IF d > Len(slot.shape)
    THEN MismatchedNumDimensions(slot.shape, NumDescribedAxes(slot))
    ELSE IF SizeOf(slot.axes[i]).kind = "None"
    THEN ValidateAxes(slot, i + 1, size_map)
    ELSE LET qual_id == QualifiedAxisId(slot.id, slot.axes[i].id) IN
         IF qual_id \notin DOMAIN size_map
         THEN Panic
         ELSE IF ~IsCompatibleWithExtent(size_map[qual_id], slot.shape[d])
         THEN IncompatibleAxis(qual_id, slot.shape[d], DimIndex(d))
         ELSE ValidateAxes(slot, i + 1, size_map)

\* validate_resolution!, the outer loop over the slots from slot k on
RECURSIVE ValidateResolution(_, _, _)
ValidateResolution(slots, k, size_map) ==
    IF k > Len(slots)
    THEN NoError
    ELSE LET e == ValidateAxes(slots[k], 1, size_map) IN
         IF e # NoError THEN e ELSE ValidateResolution(slots, k + 1, size_map)

\* (mutant) the outputs are validated before the inputs
ValidateBoth_OutputsFirst(ins, outs, size_map) ==
    LET e == ValidateResolution(outs, 1, size_map) IN
    IF e # NoError THEN e ELSE ValidateResolution(ins, 1, size_map)

\* validate_resolution!(inputs); validate_resolution!(outputs);
ValidateBoth(ins, outs, size_map) ==
    LET e == ValidateResolution(ins, 1, size_map) IN
    IF e # NoError THEN e ELSE ValidateResolution(outs, 1, size_map)

\* (mutant) a pre-processing reference is looked up among all seen tensor ids
KnownToPreprocessing_AnyTensor(ins, seen, ref) == ref \in seen

\* inputs.iter().find(|inp| inp.tensor_meta.id == *tensor_ref).is_none(), negated
KnownToPreprocessing(ins, seen, ref) == \E k \in 1..Len(ins) : ins[k].id = ref

\* (mutant) a post-processing reference is looked up among the outputs only
KnownToPostprocessing_OutputsOnly(outs, seen, ref) == \E k \in 1..Len(outs) : outs[k].id = ref

\* seen_tensor_ids.contains(tensor_ref)
KnownToPostprocessing(outs, seen, ref) == ref \in seen

\* the tensor_ref a pre-processing step is matched to, NoTensor for `_ => continue`
PreprocessingRef(proc) ==
    IF proc.kind = "ScaleRange" THEN proc.reference_tensor ELSE NoTensor

\* the tensor_ref a post-processing step is matched to, NoTensor for `_ => continue`
PostprocessingRef(proc) ==
    IF proc.kind \in {"ScaleMeanVariance", "ScaleRange"} THEN proc.reference_tensor ELSE NoTensor

\* the loop over inputs and their preprocessing, from step j of slot k on
RECURSIVE CheckPreprocessing(_, _, _, _)
CheckPreprocessing(ins, seen, k, j) ==
    IF k > Len(ins)
    THEN NoError
    ELSE IF j > Len(ins[k].procs)
    THEN CheckPreprocessing(ins, seen, k + 1, 1)
    ELSE LET tensor_ref == PreprocessingRef(ins[k].procs[j]) IN
         IF tensor_ref # NoTensor /\ ~KnownToPreprocessing(ins, seen, tensor_ref)
         THEN InvalidTensorReference(tensor_ref)
         ELSE CheckPreprocessing(ins, seen, k, j + 1)

\* the loop over outputs and their postprocessing, from step j of slot k on
RECURSIVE CheckPostprocessing(_, _, _, _)
CheckPostprocessing(outs, seen, k, j) ==
    IF k > Len(outs)
    THEN NoError
    ELSE IF j > Len(outs[k].procs)
    THEN CheckPostprocessing(outs, seen, k + 1, 1)
    ELSE LET tensor_ref == PostprocessingRef(outs[k].procs[j]) IN
         IF tensor_ref # NoTensor /\ ~KnownToPostprocessing(outs, seen, tensor_ref)
         THEN InvalidTensorReference(tensor_ref)
         ELSE CheckPostprocessing(outs, seen, k, j + 1)

\* (mutant) the outputs are converted before the inputs
EmptyCheck_OutputsFirst(ins, outs) ==
    IF outs = <<>> THEN EmptyOutputs
    ELSE IF ins = <<>> THEN EmptyInputs
    ELSE NoError

\* NonEmptyList::try_from(inputs)?, then NonEmptyList::try_from(outputs)?
EmptyCheck(ins, outs) ==
    IF ins = <<>> THEN EmptyInputs
    ELSE IF outs = <<>> THEN EmptyOutputs
    ELSE NoError

\* (mutant) the outputs' ids are walked before the inputs'
WalkOrder_OutputsFirst(ins, outs) == TensorIdsOf(outs) \o TensorIdsOf(ins)

\* inputs.iter().map(id).chain(outputs.iter().map(id))
WalkOrder(ins, outs) == TensorIdsOf(ins) \o TensorIdsOf(outs)

\* (mutant) the outputs' sizes are not chained to the inputs'
CollectSizes_InputsOnly(ins, outs) == QualIdSizes(ins, 1)

\* inputs.qual_id_sizes().chain(outputs.qual_id_sizes()).collect()
CollectSizes(ins, outs) == QualIdSizes(ins, 1) \o QualIdSizes(outs, 1)

\* try_build from its entry to the call of solve(): the non-empty checks,
\* the duplicate tensor id walk, the collection of the sizes, SlotResolver::new
TryBuildBegin ==
    /\ call = "try_build"
    /\ pc = "try_build"
    /\ IF EmptyCheck(inputs, outputs) # NoError
       THEN /\ build_result' = ErrResult(EmptyCheck(inputs, outputs))
            /\ pc' = "done"
            /\ UNCHANGED <<sizes, resolved_axes, unresolved_axes, result, seen_tensor_ids>>
       ELSE LET walk == SeenWalk(WalkOrder(inputs, outputs), 1, {}) IN
            /\ seen_tensor_ids' = walk.seen
            /\ IF walk.err # NoError
               THEN /\ build_result' = ErrResult(walk.err)
                    /\ pc' = "done"
                    /\ UNCHANGED <<sizes, resolved_axes, unresolved_axes, result>>
               ELSE LET axis_sizes == CollectSizes(inputs, outputs)
                        r == SlotResolverNew(axis_sizes)
                    IN  /\ sizes' = axis_sizes
                        /\ IF r.ok
                           THEN /\ resolved_axes' = r.resolved_axes
                                /\ unresolved_axes' = r.unresolved_axes
                                /\ UNCHANGED <<result, build_result>>
                                /\ pc' = "solve"
                           ELSE /\ result' = ErrResult(r.err)
                                /\ build_result' = ErrResult(AxisSizeResolutionError(r.err))
                                /\ pc' = "done"
                                /\ UNCHANGED <<resolved_axes, unresolved_axes>>
    /\ UNCHANGED <<call, lap, inputs, outputs, rerunVars, probeVars, frameVars, peerVars>>

\* try_build from the return of solve() to its own return: the `?` on the
\* resolver's result, the two shape passes, the two reference passes
TryBuildFinish ==
    /\ call = "try_build"
    /\ pc = "validate"
    /\ pc' = "done"
    /\ IF result.status = "Err"
       THEN build_result' = ErrResult(AxisSizeResolutionError(result.err))
       ELSE LET size_map == result.map
                shape_err == ValidateBoth(inputs, outputs, size_map)
                pre_err   == CheckPreprocessing(inputs, seen_tensor_ids, 1, 1)
                post_err  == CheckPostprocessing(outputs, seen_tensor_ids, 1, 1)
            IN  build_result' =
                    IF shape_err # NoError THEN ErrResult(shape_err)
                    ELSE IF pre_err # NoError THEN ErrResult(pre_err)
                    ELSE IF post_err # NoError THEN ErrResult(post_err)
                    ELSE [status |-> "Ok", inputs |-> inputs, outputs |-> outputs]
    /\ UNCHANGED <<call, resolverVars, inputs, outputs, seen_tensor_ids, rerunVars, probeVars, frameVars, peerVars>>

---------------------------------------------------------------------------
(* The caller of try_build                                                 *)

MaxAxes  == 2        \* most axes of a slot of BuildSpec
MaxProcs == 2        \* most processing steps of a slot of BuildSpec

Extents == {4, 5}
Shapes  == SeqUpTo(Extents, MaxAxes)

\* tensor 3 is the id of no slot
SlotSizes == {NoSize} \cup ConcreteSizes
                \cup {Reference(q, 0) : q \in {<<1, 1>>, <<2, 1>>, <<3, 1>>}}
SlotAxes  == {Axis(a, s) : a \in AxisIds, s \in SlotSizes}

ProcRefs     == {1, 2, 3}
InProcLists  == {<<>>} \cup {<<ScaleRange(r)>> : r \in ProcRefs \cup {NoTensor}}
OutProcLists == InProcLists \cup {<<ScaleMeanVariance(r)>> : r \in ProcRefs}

\* slots that differ in their axes and shapes
RichSlots  == {Slot(1, axes, shape, <<>>) :
                 axes \in SeqUpTo(SlotAxes, MaxAxes), shape \in Shapes}
SmallSlots == {Slot(t, axes, <<4>>, <<>>) :
                 t \in TensorIds, axes \in SeqUpTo({x \in SlotAxes : x.id = 1}, 1)}
\* slots that differ in their ids and processing steps
PlainAxes  == <<Axis(1, Fixed(4))>>
PlainIn    == {Slot(t, PlainAxes, <<4>>, procs) : t \in TensorIds, procs \in InProcLists}
PlainOut   == {Slot(t, PlainAxes, <<4>>, procs) : t \in TensorIds, procs \in OutProcLists}
\* slots with several processing steps
InSteps    == {ScaleRange(r) : r \in ProcRefs \cup {NoTensor}}
OutSteps   == InSteps \cup {ScaleMeanVariance(r) : r \in ProcRefs}
StepIn     == {Slot(1, PlainAxes, <<4>>, procs) : procs \in SeqUpTo(InSteps, MaxProcs)}
StepOut    == {Slot(2, PlainAxes, <<4>>, procs) : procs \in SeqUpTo(OutSteps, MaxProcs)}

Interfaces ==
    ({<<s>> : s \in RichSlots} \X {<<s>> : s \in SmallSlots})
    \cup ({<<s>> : s \in SmallSlots} \X {<<s>> : s \in RichSlots})
    \cup (SeqUpTo(PlainIn, 2) \X SeqUpTo(PlainOut, 2))
    \cup ({<<s>> : s \in StepIn} \X {<<s>> : s \in StepOut})

InitBuild ==
    /\ call = "try_build"
    /\ pc = "try_build"
    /\ \E iface \in Interfaces :
        /\ inputs = iface[1]
        /\ outputs = iface[2]
    /\ sizes = <<>>
    /\ resolved_axes = EmptyMap
    /\ unresolved_axes = EmptyMap
    /\ lap = 0
    /\ result = NoResult
    /\ seen_tensor_ids = {}
    /\ build_result = NoResult
    /\ FirstRun
    /\ NoFrames
    /\ NoPeer
    /\ NoProbe

NextBuild == TryBuildBegin \/ Step \/ TryBuildFinish

BuildSpec == InitBuild /\ [][NextBuild]_vars

\* try_build runs on one thread: a step that can run, runs
FairBuildSpec == BuildSpec /\ WF_vars(TryBuildBegin) /\ WF_vars(Step) /\ WF_vars(TryBuildFinish)

---------------------------------------------------------------------------
(* What the input declares, read off the list itself                       *)

DeclaredIds(szs) == {szs[i][1] : i \in 1..Len(szs)}

HasDuplicateId(szs) ==
    \E i, j \in 1..Len(szs) : i # j /\ szs[i][1] = szs[j][1]

\* the declared reference edges: id -> target
RefEdges(szs) ==
    {<<szs[i][1], szs[i][2].qualified_axis_id>> :
        i \in {k \in 1..Len(szs) : szs[k][2].kind = "Reference"}}

\* ids reachable from q along at most n declared reference edges (n >= 1 edge)
RECURSIVE ReachableFrom(_, _, _)
ReachableFrom(szs, q, n) ==
    IF n = 0
    THEN {}
    ELSE LET next == {e[2] : e \in {d \in RefEdges(szs) : d[1] = q}}
         IN  next \cup UNION {ReachableFrom(szs, t, n - 1) : t \in next}

HasCycle(szs) == \E q \in DeclaredIds(szs) : q \in ReachableFrom(szs, q, Len(szs))

\* some reference chain ends at an id declared nowhere
HasDangling(szs) == \E e \in RefEdges(szs) : e[2] \notin DeclaredIds(szs)

\* the concrete sizes a chain of declared references starting at q can end in
RECURSIVE TerminalSizes(_, _, _)
TerminalSizes(szs, q, n) ==
    IF n = 0
    THEN {}
    ELSE UNION {IF szs[i][2].kind = "Reference"
                THEN TerminalSizes(szs, szs[i][2].qualified_axis_id, n - 1)
                ELSE {szs[i][2]} :
                i \in {k \in 1..Len(szs) : szs[k][1] = q}}

SolveReturned   == call = "solve" /\ pc = "done"
SolveOk         == SolveReturned /\ result.status = "Ok"
SolveErr(kind)  == SolveReturned /\ result.status = "Err" /\ result.err.kind = kind
SolveRunning    == call = "solve" /\ pc = "solve"

---------------------------------------------------------------------------
(* C1: once SlotResolver::new has returned Ok, solve() returns (Ok or Err) *)
(* after finitely many step() iterations.                                  *)
C1_SolveTerminates == SolveRunning ~> SolveReturned

(* C2: whenever the list holds two entries with the same qualified id,     *)
(* whatever their kinds, SlotResolver::new fails with DuplicateId.         *)
C2_DuplicateIdRejected ==
    (call = "solve" /\ pc # "new" /\ HasDuplicateId(sizes))
        => (pc = "done" /\ result.status = "Err" /\ result.err.kind = "DuplicateId")

(* C3: solve() returns an error or a mapping whose keys are exactly the    *)
(* declared ids and whose values are all Fixed or Parameterized; never a   *)
(* mapping over part of the declared ids.                                  *)
C3_AllOrNothing ==
    SolveReturned =>
        /\ result.status \in {"Ok", "Err"}
        /\ result.status = "Ok" =>
            /\ DOMAIN result.map = DeclaredIds(sizes)
            /\ \A q \in DOMAIN result.map : IsResolvedSize(result.map[q])

C3_Witness ==
    /\ SolveOk
    /\ \E i \in 1..Len(sizes) : sizes[i][2].kind = "Reference"
    /\ Cardinality(DeclaredIds(sizes)) >= 2

(* C4: after a successful solve(), every id on a chain of references that  *)
(* ends at an axis declared Fixed or Parameterized maps to exactly the     *)
(* value declared for that terminal axis.                                  *)
C4_Transitivity ==
    SolveOk =>
        \A q \in DeclaredIds(sizes) :
            \A v \in TerminalSizes(sizes, q, Len(sizes)) :
                q \in DOMAIN result.map /\ result.map[q] = v

\* C -> B -> A with A concrete
C4_Witness ==
    /\ SolveOk
    /\ \E i, j, k \in 1..Len(sizes) :
        /\ sizes[i][2].kind = "Reference"
        /\ sizes[j][2].kind = "Reference"
        /\ sizes[i][2].qualified_axis_id = sizes[j][1]
        /\ sizes[j][2].qualified_axis_id = sizes[k][1]
        /\ sizes[k][2].kind # "Reference"
        /\ result.map[sizes[i][1]] = sizes[k][2]

(* C5: when the declared references contain a cycle and no chain ends at   *)
(* an undeclared id, solve() fails with Loop and never returns Ok.         *)
C5_CycleGivesLoop ==
    /\ [](SolveOk => ~(HasCycle(sizes) /\ ~HasDangling(sizes)))
    /\ (SolveRunning /\ HasCycle(sizes) /\ ~HasDangling(sizes)) ~> SolveErr("Loop")

(* C6: when some reference chain ends at an undeclared id, solve() fails;  *)
(* an Unresolvable error carries the ids traversed, in order, from the     *)
(* picked id to the undeclared one, and its message joins them by " -> ".  *)
VisitedIsTheChain ==
    SolveErr("Unresolvable") =>
        LET visited == result.err.visited
            n       == Len(visited)
        IN  /\ n >= 2
            /\ visited[1] = LastKey(unresolved_axes)
            /\ visited[n] \notin DeclaredIds(sizes)
            /\ \A i \in 1..(n - 1) :
                /\ visited[i] \in DOMAIN unresolved_axes
                /\ unresolved_axes[visited[i]].qualified_axis_id = visited[i + 1]
            /\ LET msg == Display(result.err) IN
                /\ Len(msg) = 2 * n
                /\ \A i \in 1..n : msg[2 * i] = visited[i]
                /\ \A i \in 1..(n - 1) : msg[2 * i + 1] = " -> "

C6_DanglingFails ==
    /\ [](VisitedIsTheChain)
    /\ [](SolveOk => ~HasDangling(sizes))
    /\ (SolveRunning /\ HasDangling(sizes)) ~> (SolveReturned /\ result.status = "Err")

---------------------------------------------------------------------------
(* What an interface declares, read off inputs and outputs themselves      *)

BuildReturned  == call = "try_build" /\ pc = "done"
BuildOk        == BuildReturned /\ build_result.status = "Ok"
BuildErr(kind) == BuildReturned /\ build_result.status = "Err" /\ build_result.err.kind = kind

InputTensorIds  == {inputs[k].id : k \in 1..Len(inputs)}
OutputTensorIds == {outputs[k].id : k \in 1..Len(outputs)}
AllTensorIds    == InputTensorIds \cup OutputTensorIds

\* the tensor ids in the order try_build meets them, and the first repeat
IdsInOrder ==
    [k \in 1..Len(inputs) + Len(outputs) |->
        IF k <= Len(inputs) THEN inputs[k].id ELSE outputs[k - Len(inputs)].id]
Repeats    == {k \in 1..Len(IdsInOrder) : \E j \in 1..k - 1 : IdsInOrder[j] = IdsInOrder[k]}
FirstRepeatedId == IdsInOrder[CHOOSE k \in Repeats : \A j \in Repeats : k <= j]

TensorIdsDistinct ==
    /\ \A j, k \in 1..Len(inputs) : j # k => inputs[j].id # inputs[k].id
    /\ \A j, k \in 1..Len(outputs) : j # k => outputs[j].id # outputs[k].id
    /\ InputTensorIds \cap OutputTensorIds = {}

\* a place in the interface: <<1, k, i>> is item i (an axis or a processing
\* step) of input k, <<2, k, i>> item i of output k; places are walked in
\* lexicographic order
SlotAt(p) == IF p[1] = 1 THEN inputs[p[2]] ELSE outputs[p[2]]

PlaceLess(p, q) ==
    \/ p[1] < q[1]
    \/ p[1] = q[1] /\ p[2] < q[2]
    \/ p[1] = q[1] /\ p[2] = q[2] /\ p[3] < q[3]

FirstPlace(S) == CHOOSE p \in S : \A q \in S \ {p} : PlaceLess(p, q)

AxisPlaces ==
    {<<1, k, i>> : k \in 1..Len(inputs), i \in 1..MaxAxes}
        \cup {<<2, k, i>> : k \in 1..Len(outputs), i \in 1..MaxAxes}

IsAxisPlace(p)  == p[3] <= Len(SlotAt(p).axes)
AxisAt(p)       == SlotAt(p).axes[p[3]]
QualIdAt(p)     == <<SlotAt(p).id, AxisAt(p).id>>
HasDimension(p) == p[3] <= Len(SlotAt(p).shape)
DimensionAt(p)  == SlotAt(p).shape[p[3]]
IsSized(p)      == AxisAt(p).size.kind # "None"

\* compatibility as the data model defines it
Compatible(size, extent) ==
    IF size.kind = "Fixed"
    THEN extent = size.extent
    ELSE \E n \in 0..extent : extent = size.min + n * size.step

\* axes the shape walk cannot pass, given the resolved sizes
LacksDimension(p, size_map) == IsAxisPlace(p) /\ ~HasDimension(p)
Incompatible(p, size_map) ==
    /\ IsAxisPlace(p) /\ HasDimension(p) /\ IsSized(p)
    /\ QualIdAt(p) \in DOMAIN size_map
    /\ ~Compatible(size_map[QualIdAt(p)], DimensionAt(p))
ShapeFailures(size_map) ==
    {p \in AxisPlaces : LacksDimension(p, size_map) \/ Incompatible(p, size_map)}

ShapeErrorAt(p) ==
    IF ~HasDimension(p)
    THEN MismatchedNumDimensions(SlotAt(p).shape, Len(SlotAt(p).axes))
    ELSE IncompatibleAxis(QualIdAt(p), DimensionAt(p), p[3] - 1)

\* processing steps that carry a reference_tensor
StepPlaces ==
    {<<1, k, j>> : k \in 1..Len(inputs), j \in 1..MaxProcs}
        \cup {<<2, k, j>> : k \in 1..Len(outputs), j \in 1..MaxProcs}
IsStepPlace(p) == p[3] <= Len(SlotAt(p).procs)
StepAt(p) == SlotAt(p).procs[p[3]]
CarriesReference(p) ==
    /\ IsStepPlace(p)
    /\ \/ StepAt(p).kind = "ScaleRange" /\ StepAt(p).reference_tensor # NoTensor
       \/ p[1] = 2 /\ StepAt(p).kind = "ScaleMeanVariance"
ReferenceSteps == {p \in StepPlaces : CarriesReference(p)}
ReferenceAt(p) == StepAt(p).reference_tensor

\* the checks that come before the reference checks all pass
ResolutionOk   == BuildReturned /\ result.status = "Ok"
ShapeChecksRun == inputs # <<>> /\ outputs # <<>> /\ TensorIdsDistinct /\ ResolutionOk
RefChecksRun   == ShapeChecksRun /\ ShapeFailures(result.map) = {}

\* the sizes try_build collects, as a set of declarations
CollectedSizes ==
    {<<QualIdAt(p), AxisAt(p).size>> : p \in {q \in AxisPlaces : IsAxisPlace(q) /\ IsSized(q)}}

---------------------------------------------------------------------------
C8_Soundness ==
    BuildOk =>
        /\ build_result.inputs = inputs /\ build_result.outputs = outputs
        /\ inputs # <<>> /\ outputs # <<>>
        /\ TensorIdsDistinct
        /\ result.status = "Ok"
        /\ \A p \in AxisPlaces : (IsAxisPlace(p) /\ IsSized(p)) =>
            /\ HasDimension(p)
            /\ QualIdAt(p) \in DOMAIN result.map
            /\ IsResolvedSize(result.map[QualIdAt(p)])
            /\ Compatible(result.map[QualIdAt(p)], DimensionAt(p))
        /\ \A p \in ReferenceSteps : ReferenceAt(p) \in AllTensorIds

\* an interface with a batch axis, a reference across tensors, two axes
C8_Witness ==
    /\ BuildOk
    /\ \E p \in AxisPlaces : IsAxisPlace(p) /\ ~IsSized(p)
    /\ \E p \in AxisPlaces :
        /\ IsAxisPlace(p) /\ AxisAt(p).size.kind = "Reference"
        /\ AxisAt(p).size.qualified_axis_id[1] # SlotAt(p).id

C10_ShapeCompatibility ==
    ShapeChecksRun =>
        LET bad   == {p \in AxisPlaces : Incompatible(p, result.map)}
            short == {p \in AxisPlaces : LacksDimension(p, result.map)}
            first == FirstPlace(bad)
        IN  /\ (bad # {} /\ \A q \in short : PlaceLess(first, q)) =>
                build_result = ErrResult(IncompatibleAxis(QualIdAt(first), DimensionAt(first),
                                                          first[3] - 1))
            /\ (build_result.status = "Err" /\ build_result.err.kind = "IncompatibleAxis") =>
                (bad # {} /\ \A q \in short : PlaceLess(first, q))

\* Y.b references X.a = Fixed(4) and Y's sample has shape [5]: Y.b, 5, 0
C10_Witness ==
    /\ BuildErr("IncompatibleAxis")
    /\ build_result.err.test_tensor_dim_size = 5
    /\ build_result.err.test_tensor_dim_index = 0
    /\ \E p \in AxisPlaces :
        /\ IsAxisPlace(p) /\ QualIdAt(p) = build_result.err.qualified_axis_id
        /\ AxisAt(p).size.kind = "Reference"
        /\ result.map[QualIdAt(p)] = Fixed(4)

---------------------------------------------------------------------------
(* The shape walk, place by place                                          *)

LacksDimensions == {p \in AxisPlaces : IsAxisPlace(p) /\ ~HasDimension(p)}

\* sized axes whose resolved size rejects the dimension at their own position
FailsCompatibility ==
    IF result.status = "Ok"
    THEN {p \in AxisPlaces : Incompatible(p, result.map)}
    ELSE {}

\* slots, as <<1, k>> for input k and <<2, k>> for output k
SlotPlaces == {<<1, k>> : k \in 1..Len(inputs)} \cup {<<2, k>> : k \in 1..Len(outputs)}
SlotOf(sp) == IF sp[1] = 1 THEN inputs[sp[2]] ELSE outputs[sp[2]]
IsShort(sp) == Len(SlotOf(sp).axes) > Len(SlotOf(sp).shape)
\* the first axis of a short slot that finds no dimension
FirstMissing(sp) == <<sp[1], sp[2], Len(SlotOf(sp).shape) + 1>>

ShapeErrorKinds == {"MismatchedNumDimensions", "IncompatibleAxis", "Panic"}

(* C11: in the shape walk (reached once the non-empty, duplicate tensor id *)
(* and resolution checks have passed), if the first slot, inputs before    *)
(* outputs, that describes more axes than its sample array has dimensions  *)
(* has no axis before its first axis without a dimension, in it or in an   *)
(* earlier slot, that fails the compatibility test, try_build fails with   *)
(* MismatchedNumDimensions carrying that slot's full sample shape and its  *)
(* total number of axes, batch axes included; it returns                   *)
(* MismatchedNumDimensions in no other case.                               *)
C11_MismatchedNumDimensions ==
    ShapeChecksRun =>
        LET short == {sp \in SlotPlaces : IsShort(sp)}
            first == CHOOSE sp \in short :
                        \A o \in short \ {sp} : PlaceLess(<<sp[1], sp[2], 0>>, <<o[1], o[2], 0>>)
            reported == short # {}
                        /\ \A b \in FailsCompatibility : ~PlaceLess(b, FirstMissing(first))
        IN  /\ reported =>
                build_result =
                    ErrResult(MismatchedNumDimensions(SlotOf(first).shape, Len(SlotOf(first).axes)))
            /\ (build_result.status = "Err"
                /\ build_result.err.kind = "MismatchedNumDimensions") => reported

\* a slot with a batch axis and a sized axis against a shape of one dimension
C11_Witness ==
    /\ BuildErr("MismatchedNumDimensions")
    /\ build_result.err.num_described_axes = 2
    /\ Len(build_result.err.test_tensor_shape) = 1
    /\ \E sp \in SlotPlaces :
        /\ IsShort(sp)
        /\ SlotOf(sp).axes[1].size.kind = "None"
        /\ SlotOf(sp).axes[2].size.kind # "None"

(* C12: an axis without a size is never tested, whatever the extent of its *)
(* dimension, but it takes one dimension: the shape walk passes exactly    *)
(* when every axis has a dimension at its own position and every sized     *)
(* axis is compatible with the dimension at its own position, and an       *)
(* IncompatibleAxis error names a sized axis with the extent and the index *)
(* of the dimension at that axis's own position.                           *)
C12_BatchAxisConsumesDimension ==
    ShapeChecksRun =>
        /\ (\A p \in AxisPlaces : IsAxisPlace(p) =>
                /\ HasDimension(p)
                /\ IsSized(p) =>
                    /\ QualIdAt(p) \in DOMAIN result.map
                    /\ Compatible(result.map[QualIdAt(p)], DimensionAt(p)))
            => ~(build_result.status = "Err" /\ build_result.err.kind \in ShapeErrorKinds)
        /\ (build_result.status = "Err" /\ build_result.err.kind = "IncompatibleAxis") =>
            \E p \in AxisPlaces :
                /\ IsAxisPlace(p) /\ IsSized(p) /\ HasDimension(p)
                /\ build_result.err.qualified_axis_id = QualIdAt(p)
                /\ build_result.err.test_tensor_dim_index = p[3] - 1
                /\ build_result.err.test_tensor_dim_size = DimensionAt(p)
                /\ ~Compatible(result.map[QualIdAt(p)], DimensionAt(p))

\* [batch, sized] against a shape whose first extent the sized axis rejects
C12_Witness ==
    /\ BuildOk
    /\ \E p \in AxisPlaces :
        /\ p[3] = 2 /\ IsAxisPlace(p) /\ IsSized(p) /\ HasDimension(p)
        /\ SlotAt(p).axes[1].size.kind = "None"
        /\ ~Compatible(result.map[QualIdAt(p)], SlotAt(p).shape[1])
        /\ Compatible(result.map[QualIdAt(p)], SlotAt(p).shape[2])

(* C13: in the duplicate-id check (reached once both lists are known to be *)
(* non-empty), whenever two slots share a tensor id, be they two inputs,   *)
(* two outputs, or an input and an output, try_build fails with            *)
(* DuplicateTensorId carrying the first repeated id met when walking all   *)
(* inputs and then all outputs; it returns DuplicateTensorId in no other   *)
(* case.                                                                   *)
C13_DuplicateTensorId ==
    BuildReturned =>
        /\ (inputs # <<>> /\ outputs # <<>> /\ ~TensorIdsDistinct) =>
            build_result = ErrResult(DuplicateTensorId(FirstRepeatedId))
        /\ (build_result.status = "Err" /\ build_result.err.kind = "DuplicateTensorId") =>
            (inputs # <<>> /\ outputs # <<>> /\ ~TensorIdsDistinct)

\* inputs X, Y and outputs Y, X: Y is met again first
C13_Witness ==
    /\ BuildErr("DuplicateTensorId")
    /\ Len(inputs) = 2 /\ Len(outputs) = 2
    /\ inputs[1].id # inputs[2].id
    /\ outputs[1].id = inputs[2].id /\ outputs[2].id = inputs[1].id
    /\ build_result.err.id = inputs[2].id

(* C14: try_build fails with EmptyInputs when the input list is empty      *)
(* (also when both are empty) and with EmptyOutputs when only the output   *)
(* list is empty, and no other check has run before: no tensor id was      *)
(* walked, no size collected, no resolver built.                           *)
C14_EmptyLists ==
    BuildReturned =>
        /\ inputs = <<>> => build_result = ErrResult(EmptyInputs)
        /\ (inputs # <<>> /\ outputs = <<>>) => build_result = ErrResult(EmptyOutputs)
        /\ (inputs = <<>> \/ outputs = <<>>) =>
            /\ seen_tensor_ids = {}
            /\ sizes = <<>>
            /\ result = NoResult
        /\ (build_result.status = "Err" /\ build_result.err.kind = "EmptyInputs") => inputs = <<>>
        /\ (build_result.status = "Err" /\ build_result.err.kind = "EmptyOutputs") => outputs = <<>>

\* two inputs with the same id and no output: EmptyOutputs, not DuplicateTensorId
C14_Witness ==
    /\ BuildErr("EmptyOutputs")
    /\ Len(inputs) = 2
    /\ inputs[1].id = inputs[2].id

---------------------------------------------------------------------------
(* C15: every id declared Fixed or Parameterized is mapped by a successful *)
(* solve() to exactly its declared value, and while solve() runs an id     *)
(* that is in the resolved map stays in it with the same value.            *)
C15_ResolvedEntriesKept ==
    /\ [](SolveOk =>
            \A i \in 1..Len(sizes) : IsResolvedSize(sizes[i][2]) =>
                /\ sizes[i][1] \in DOMAIN result.map
                /\ result.map[sizes[i][1]] = sizes[i][2])
    /\ [][pc = "solve" =>
            \A q \in DOMAIN resolved_axes :
                /\ q \in DOMAIN resolved_axes'
                /\ resolved_axes'[q] = resolved_axes[q]]_vars

\* a declared Parameterized entry and a reference that resolved next to it
C15_Witness ==
    /\ SolveOk
    /\ \E i, j \in 1..Len(sizes) :
        /\ sizes[i][2].kind = "Parameterized"
        /\ sizes[j][2].kind = "Reference"
        /\ result.map[sizes[i][1]] = sizes[i][2]
        /\ sizes[j][2].qualified_axis_id = sizes[i][1]
        /\ result.map[sizes[j][1]] = sizes[i][2]

(* C20: try_build never panics: whenever resolution succeeded the size map *)
(* has an entry for every axis of every slot that carries a size, and      *)
(* every outcome of try_build is Ok or a TensorValidationError.            *)
TypedErrorKinds ==
    {"EmptyInputs", "EmptyOutputs", "DuplicateTensorId", "AxisSizeResolutionError",
     "MismatchedNumDimensions", "IncompatibleAxis", "InvalidTensorReference"}

C20_NoPanic ==
    call = "try_build" =>
        /\ result.status = "Ok" =>
            \A p \in AxisPlaces : (IsAxisPlace(p) /\ IsSized(p)) =>
                QualIdAt(p) \in DOMAIN result.map
        /\ BuildReturned =>
            /\ build_result.status \in {"Ok", "Err"}
            /\ build_result.status = "Err" => build_result.err.kind \in TypedErrorKinds

\* the shape check looked up a referencing axis of an output and a declared
\* axis of an input
C20_Witness ==
    /\ BuildReturned
    /\ result.status = "Ok"
    /\ build_result.status \in {"Ok", "Err"}
    /\ \E p, q \in AxisPlaces :
        /\ p[1] = 1 /\ IsAxisPlace(p) /\ IsSized(p) /\ HasDimension(p)
        /\ q[1] = 2 /\ IsAxisPlace(q) /\ IsSized(q) /\ HasDimension(q)
        /\ AxisAt(q).size.kind = "Reference"
        /\ \A o \in AxisPlaces : IsAxisPlace(o) => HasDimension(o)

---------------------------------------------------------------------------
(* Two runs of new() + solve()                                             *)

SecondReturned == call = "solve" /\ round = 2 /\ pc = "done"

\* same ids, same kinds, same values and targets; offsets free
DifferInOffsetsOnly(a, b) ==
    /\ Len(a) = Len(b)
    /\ \A i \in 1..Len(a) :
        /\ a[i][1] = b[i][1]
        /\ a[i][2].kind = b[i][2].kind
        /\ IF a[i][2].kind = "Reference"
           THEN a[i][2].qualified_axis_id = b[i][2].qualified_axis_id
           ELSE a[i][2] = b[i][2]

(* C16: two lists that differ in the offsets of their references only give *)
(* the same outcome of new() + solve(), the same mapping or the same       *)
(* error, and in a mapping every referencing id has exactly the size of    *)
(* its target, whatever its offset.                                        *)
C16_OffsetIgnored ==
    (SecondReturned /\ DifferInOffsetsOnly(first_sizes, sizes)) =>
        /\ result = first_result
        /\ result.status = "Ok" =>
            \A i \in 1..Len(sizes) : sizes[i][2].kind = "Reference" =>
                /\ sizes[i][1] \in DOMAIN result.map
                /\ sizes[i][2].qualified_axis_id \in DOMAIN result.map
                /\ result.map[sizes[i][1]] = result.map[sizes[i][2].qualified_axis_id]

\* the second list has offset 1 where the first had 0, and the referencing
\* id still resolves to Fixed(4)
C16_Witness ==
    /\ SecondReturned
    /\ result.status = "Ok"
    /\ \E i \in 1..Len(sizes) :
        /\ sizes[i][2].kind = "Reference"
        /\ sizes[i][2].offset = 1
        /\ first_sizes[i][2].offset = 0
        /\ result.map[sizes[i][1]] = Fixed(4)

(* C17: is_compatible_with_extent returns true for Fixed(f) iff the extent *)
(* is f, and for Parameterized{min, step} iff the extent is min plus a     *)
(* multiple of step; below min it returns false; Parameterized{2, 3}       *)
(* accepts 2, 5, 8 and rejects 3, 4, 10.                                   *)
CompatReturned == call = "is_compatible_with_extent" /\ pc = "done"

C17_CompatibilityFormula ==
    CompatReturned =>
        /\ compatible \in BOOLEAN
        /\ probe_size.kind = "Fixed" => (compatible <=> probe_extent = probe_size.extent)
        /\ probe_size.kind = "Parameterized" =>
            /\ compatible <=>
                \E n \in 0..probe_extent : probe_extent = probe_size.min + n * probe_size.step
            /\ probe_extent < probe_size.min => ~compatible
        /\ probe_size = Parameterized(2, 3) =>
            /\ probe_extent \in {2, 5, 8} => compatible
            /\ probe_extent \in {3, 4, 10} => ~compatible

\* an extent below min that is min minus a multiple of step
C17_Witness ==
    /\ CompatReturned
    /\ probe_size = Parameterized(5, 3)
    /\ probe_extent = 2
    /\ ~compatible

C19_SameMappingWhenReturned ==
    SecondReturned =>
        /\ result.status = first_result.status
        /\ result.status = "Ok" => result.map = first_result.map

C19_PickIndependence ==
    /\ [](C19_SameMappingWhenReturned)
    /\ (call = "solve" /\ round = 2)
            ~> (SecondReturned /\ result.status = first_result.status)

---------------------------------------------------------------------------
(* The two maps while solve() runs                                         *)

NewReturnedOk ==
    /\ call = "solve"
    /\ pc \in {"solve", "try_resolve", "done"}
    /\ ~(result.status = "Err" /\ result.err.kind = "DuplicateId")

(* C22: every step() that returns Resolving leaves unresolved_axes with    *)
(* strictly fewer entries than it had, the picked id being taken out of    *)
(* unresolved_axes and put into resolved_axes.                             *)
C22_StepShrinksUnresolved ==
    [][(pc = "solve" /\ pc' = "solve") =>
        /\ Cardinality(DOMAIN unresolved_axes') < Cardinality(DOMAIN unresolved_axes)
        /\ LastKey(unresolved_axes) \notin DOMAIN unresolved_axes'
        /\ LastKey(unresolved_axes) \in DOMAIN resolved_axes']_vars

(* C23: once SlotResolver::new has returned Ok, and after every step of    *)
(* solve(), no qualified id is a key of both maps and the keys of the two  *)
(* maps together are exactly the ids the list declares.                    *)
C23_Partition ==
    NewReturnedOk =>
        /\ (DOMAIN resolved_axes) \cap (DOMAIN unresolved_axes) = {}
        /\ (DOMAIN resolved_axes) \cup (DOMAIN unresolved_axes) = DeclaredIds(sizes)

---------------------------------------------------------------------------
(* solve() call by call                                                    *)

InTryResolve == call = "solve" /\ pc = "try_resolve"

\* the key step() handed to try_resolve, and the maps at that moment
Picked          == stack[1].current
UnresolvedThen  == stack[1].unresolved_axes
ResolvedThen    == stack[1].resolved_axes

\* the order on (tensor_id, axis_id): first by tensor id, then by axis id
LexLess(p, q) == p[1] < q[1] \/ (p[1] = q[1] /\ p[2] < q[2])

(* C24: step() hands to try_resolve the key of unresolved_axes that is     *)
(* greatest in the lexicographic order on (tensor_id, axis_id), with an    *)
(* empty visited set, and solve() returns the resolved map at the first    *)
(* step() that finds unresolved_axes empty, and only then.                 *)
C24_GreatestKeyPicked ==
    /\ [](InTryResolve =>
            /\ Picked \in DOMAIN UnresolvedThen
            /\ \A k \in (DOMAIN UnresolvedThen) \ {Picked} : LexLess(k, Picked))
    /\ [][(pc = "solve" /\ pc' = "try_resolve") =>
            /\ DOMAIN unresolved_axes # {}
            /\ visited_ids' = <<>>
            /\ Len(stack') = 1
            /\ stack'[1].unresolved_axes = unresolved_axes]_vars
    /\ [][(pc = "solve" /\ DOMAIN unresolved_axes = {}) =>
            /\ pc' = "done"
            /\ result' = OkResult(resolved_axes)]_vars
    /\ [](SolveOk => (DOMAIN unresolved_axes = {} /\ result.map = resolved_axes))

\* three references were unresolved and the picked one is neither the first
\* declared nor the last declared
C24_Witness ==
    /\ InTryResolve
    /\ Cardinality(DOMAIN UnresolvedThen) = 3
    /\ Len(sizes) = 3
    /\ Picked = sizes[2][1]
    /\ Picked = <<2, 1>>

\* the reference chain followed from q through the references that were
\* unresolved when step() called try_resolve: its n-th id, q being the 0-th;
\* NoId once the chain has left the unresolved references
NoId == <<0, 0>>

RECURSIVE ChainAt(_, _)
ChainAt(q, n) ==
    IF n = 0
    THEN q
    ELSE LET prev == ChainAt(q, n - 1) IN
         IF prev \in DOMAIN UnresolvedThen
         THEN UnresolvedThen[prev].qualified_axis_id
         ELSE NoId

ChainBound == Cardinality(DOMAIN UnresolvedThen)

\* q lies on a cycle of references
OnCycle(q) == \E n \in 1..ChainBound : ChainAt(q, n) = q

\* the chain from the picked key reaches ChainAt(Picked, n) a second time at
\* its n-th id, and no id a second time before
FirstRepeatAt(n) ==
    /\ \E m \in 0..(n - 1) : ChainAt(Picked, m) = ChainAt(Picked, n)
    /\ \A i, j \in 0..(n - 1) : i # j => ChainAt(Picked, i) # ChainAt(Picked, j)

ReturnsLoop == InTryResolve /\ ret.status = "Err" /\ ret.err.kind = "Loop"

(* C25: when a try_resolve started by step() fails with Loop(id), id is    *)
(* the first id the reference chain followed from the picked key reaches   *)
(* a second time: the picked key when it lies on the cycle, otherwise the  *)
(* id at which the chain enters the cycle; solve() returns that error.     *)
C25_LoopBlamesFirstRepeat ==
    /\ [](ReturnsLoop =>
            /\ \E n \in 1..ChainBound :
                /\ FirstRepeatAt(n)
                /\ ret.err.id = ChainAt(Picked, n)
            /\ OnCycle(Picked) => ret.err.id = Picked
            /\ ~OnCycle(Picked) =>
                \E n \in 1..ChainBound :
                    /\ ret.err.id = ChainAt(Picked, n)
                    /\ OnCycle(ChainAt(Picked, n))
                    /\ \A m \in 0..(n - 1) : ~OnCycle(ChainAt(Picked, m)))
    /\ [][(ReturnsLoop /\ pc' = "done") => result' = ErrResult(ret.err)]_vars
    /\ [][(result'.status = "Err" /\ result.status # "Err" /\ result'.err.kind = "Loop")
            => ReturnsLoop]_vars

\* the picked key leads into a cycle it is not on
C25_Witness ==
    /\ ReturnsLoop
    /\ Len(stack) = 1
    /\ ~OnCycle(Picked)
    /\ ret.err.id # Picked
    /\ ret.err.id = ChainAt(Picked, 1)
    /\ ChainAt(Picked, 3) = ChainAt(Picked, 1)
    /\ ChainAt(Picked, 2) # ChainAt(Picked, 1)

ReturnsErr == InTryResolve /\ ret.status = "Err"

(* C28: when a try_resolve call returns Loop or Unresolvable, the resolved *)
(* and unresolved maps are exactly as they were when that call was         *)
(* entered, for the call that detects the error and for every call above   *)
(* it on the chain; the maps change only when a call resumes after its     *)
(* inner call has returned Ok.                                             *)
C28_ErrorLeavesMaps ==
    /\ [](ReturnsErr =>
            /\ ret.err.kind \in {"Loop", "Unresolvable"}
            /\ resolved_axes = Top.resolved_axes
            /\ unresolved_axes = Top.unresolved_axes
            /\ resolved_axes = ResolvedThen
            /\ unresolved_axes = UnresolvedThen)
    /\ [][(InTryResolve /\ <<resolved_axes, unresolved_axes>>' # <<resolved_axes, unresolved_axes>>)
            => (ret.status = "Ok" /\ Len(stack) >= 2)]_vars
    /\ [][(ReturnsErr /\ pc' = "done") =>
            /\ result' = ErrResult(ret.err)
            /\ UNCHANGED <<resolved_axes, unresolved_axes>>]_vars

\* the error was detected in a nested call and has come back to the call
\* step() made, after an earlier step() had moved a reference to resolved_axes
C28_Witness ==
    /\ ReturnsErr
    /\ Len(stack) = 1
    /\ Len(visited_ids) >= 1
    /\ ret.err.kind = "Loop"
    /\ Picked \in DOMAIN unresolved_axes
    /\ \E i \in 1..Len(sizes) :
        /\ sizes[i][2].kind = "Reference"
        /\ sizes[i][1] \in DOMAIN resolved_axes
        /\ sizes[i][1] \notin DOMAIN unresolved_axes

\* the ids of the calls above the innermost one, outermost first
CallersIds == [i \in 1..(Len(stack) - 1) |-> stack[i].current]

(* C29: every try_resolve call that step() starts with an empty visited    *)
(* set returns: each nested call is made by a call that has just added its *)
(* own id, a new one, to visited, so visited holds the distinct ids of the *)
(* calls in progress, all of them unresolved references, and the nesting   *)
(* depth is at most the number of entries of unresolved_axes plus one.     *)
C29_TryResolveTerminates ==
    /\ [](InTryResolve =>
            /\ Len(stack) <= Cardinality(DOMAIN UnresolvedThen) + 1
            /\ Len(stack) <= Cardinality(DOMAIN unresolved_axes) + 1
            /\ \A i, j \in 1..Len(visited_ids) : i # j => visited_ids[i] # visited_ids[j]
            /\ ret = NoRet =>
                /\ visited_ids = CallersIds
                /\ \A i \in 1..Len(visited_ids) : visited_ids[i] \in DOMAIN unresolved_axes)
    /\ [][(InTryResolve /\ Len(stack') > Len(stack)) =>
            /\ Len(stack') = Len(stack) + 1
            /\ visited_ids' = Append(visited_ids, Top.current)
            /\ ~Contains(visited_ids, Top.current)]_vars
    /\ InTryResolve ~> ~InTryResolve

\* three references in a ring: the fourth call finds the picked key in visited
C29_Witness ==
    /\ InTryResolve
    /\ Cardinality(DOMAIN UnresolvedThen) = 3
    /\ Len(stack) = 4
    /\ Len(visited_ids) = 3
    /\ ret.status = "Err"

---------------------------------------------------------------------------
(* Two resolvers at once                                                   *)

OwnResolver  == <<pc, sizes, resolved_axes, unresolved_axes, result>>

(* C21: two callers, each with a resolver of its own, whose new() and      *)
(* step() calls interleave in any order, each get the result that          *)
(* new() + solve() gives on their list when run alone, and a step of one   *)
(* call leaves the list, the maps and the result of the other as they      *)
(* were.                                                                   *)
C21_InterleavedCallsIndependent ==
    /\ []((call = "solve" /\ peer.pc # "none") =>
            /\ pc = "done" => result = SolveAlone(sizes)
            /\ peer.pc = "done" => peer.result = SolveAlone(peer.sizes))
    /\ [][(peer.pc # "none" /\ peer' # peer) => OwnResolver' = OwnResolver]_vars
    /\ [][(peer.pc # "none" /\ OwnResolver' # OwnResolver) => peer' = peer]_vars

\* both callers have returned, one with a mapping the other's list has a
\* dangling reference into, and the other with Unresolvable
C21_Witness ==
    /\ call = "solve" /\ pc = "done" /\ peer.pc = "done"
    /\ result.status = "Ok"
    /\ <<1, 1>> \in DOMAIN result.map
    /\ peer.result.status = "Err"
    /\ peer.result.err.kind = "Unresolvable"
    /\ peer.result.err.visited[Len(peer.result.err.visited)] = <<1, 1>>

---------------------------------------------------------------------------
(* Slots whose sample array has more dimensions than they have axes        *)

HasSpareDimensions(sp) == Len(SlotOf(sp).shape) > Len(SlotOf(sp).axes)

(* C30: MismatchedNumDimensions is returned only for a slot that has more  *)
(* axes than its sample array has dimensions; when no slot is short and    *)
(* every sized axis accepts the dimension at its position, the shape check *)
(* passes whatever dimensions are left over, so a built interface may hold *)
(* a slot with fewer axes than its sample array has dimensions.            *)
C30_DimensionCheckOneSided ==
    BuildReturned =>
        /\ (build_result.status = "Err" /\ build_result.err.kind = "MismatchedNumDimensions") =>
            \E sp \in SlotPlaces :
                /\ IsShort(sp)
                /\ build_result.err.test_tensor_shape = SlotOf(sp).shape
                /\ build_result.err.num_described_axes = Len(SlotOf(sp).axes)
                /\ build_result.err.num_described_axes > Len(build_result.err.test_tensor_shape)
        /\ (ShapeChecksRun /\ (\A sp \in SlotPlaces : ~IsShort(sp)) /\ FailsCompatibility = {}) =>
            ~(build_result.status = "Err" /\ build_result.err.kind \in ShapeErrorKinds)
        /\ BuildOk => \A sp \in SlotPlaces : ~IsShort(sp)

\* built with a slot of one axis, Fixed(4), whose sample has shape [4, 5]
C30_Witness ==
    /\ BuildOk
    /\ \E sp \in SlotPlaces :
        /\ HasSpareDimensions(sp)
        /\ Len(SlotOf(sp).axes) = 1
        /\ SlotOf(sp).axes[1].size = Fixed(4)
        /\ SlotOf(sp).shape = <<4, 5>>

---------------------------------------------------------------------------
(* Axes of different tensors that share an axis id                         *)

SizedPlaces == {p \in AxisPlaces : IsAxisPlace(p) /\ IsSized(p)}

\* two sized axes of different tensors carry the same axis id
SharedAxisId ==
    \E p, q \in SizedPlaces : SlotAt(p).id # SlotAt(q).id /\ AxisAt(p).id = AxisAt(q).id

(* C27: a qualified id is the pair of both its components: the resolver    *)
(* reports DuplicateId only for an id that two axes carry with the same    *)
(* tensor id and the same axis id, axes of different tensors with the same *)
(* axis id each keep their own resolved size, and in a resolved mapping a  *)
(* Reference to X.a has the size of the axis a of tensor X, which must be  *)
(* declared; the axis a of another tensor does not stand in for it.        *)
C27_StructuralIdentity ==
    (BuildReturned /\ inputs # <<>> /\ outputs # <<>> /\ TensorIdsDistinct) =>
        LET sized    == SizedPlaces
            declared == {QualIdAt(p) : p \in sized}
            refs     == {p \in sized : AxisAt(p).size.kind = "Reference"}
        IN  /\ (result.status = "Err" /\ result.err.kind = "DuplicateId") =>
                \E p, q \in sized :
                    p # q /\ QualIdAt(p) = result.err.id /\ QualIdAt(q) = result.err.id
            /\ result.status = "Ok" =>
                /\ DOMAIN result.map = declared
                /\ \A p \in sized \ refs : result.map[QualIdAt(p)] = AxisAt(p).size
                /\ \A p \in refs :
                    /\ AxisAt(p).size.qualified_axis_id \in declared
                    /\ result.map[QualIdAt(p)] = result.map[AxisAt(p).size.qualified_axis_id]
            /\ (\E p \in refs : AxisAt(p).size.qualified_axis_id \notin declared)
                => result.status # "Ok"

\* X.a is Parameterized{2, 3} and Y.a is Fixed(4): each keeps its own size
C27_Witness ==
    /\ BuildOk
    /\ SharedAxisId
    /\ \E p, q \in SizedPlaces :
        /\ SlotAt(p).id # SlotAt(q).id
        /\ AxisAt(p).id = AxisAt(q).id
        /\ result.map[QualIdAt(p)] = Parameterized(2, 3)
        /\ result.map[QualIdAt(q)] = Fixed(4)

---------------------------------------------------------------------------
(* References whose target carries no collected size                       *)

CollectedIds == {QualIdAt(p) : p \in SizedPlaces}

\* sized axes that reference an id no sized axis carries
MissingTargets ==
    {p \in SizedPlaces :
        /\ AxisAt(p).size.kind = "Reference"
        /\ AxisAt(p).size.qualified_axis_id \notin CollectedIds}

TargetOf(p) == AxisAt(p).size.qualified_axis_id

\* the three ways a target can be missing
TargetIsBatchAxis(p) ==
    \E q \in AxisPlaces : IsAxisPlace(q) /\ ~IsSized(q) /\ QualIdAt(q) = TargetOf(p)
TargetAxisAbsent(p) ==
    /\ TargetOf(p)[1] \in AllTensorIds
    /\ \A q \in AxisPlaces : IsAxisPlace(q) => QualIdAt(q) # TargetOf(p)
TargetTensorAbsent(p) == TargetOf(p)[1] \notin AllTensorIds

EarlyChecksPass == inputs # <<>> /\ outputs # <<>> /\ TensorIdsDistinct

\* whenever try_build returns on such an interface it returns the resolver's
\* error, and that error is Unresolvable unless a duplicate id or a loop is
\* there to be met first
C26_ReturnsResolverError ==
    (BuildReturned /\ EarlyChecksPass /\ MissingTargets # {}) =>
        /\ result.status = "Err"
        /\ build_result = ErrResult(AxisSizeResolutionError(result.err))
        /\ result.err.kind = "DuplicateId" => HasDuplicateId(sizes)
        /\ result.err.kind = "Loop" => HasCycle(sizes)
        /\ result.err.kind = "Unresolvable" =>
            result.err.visited[Len(result.err.visited)] \notin CollectedIds
        /\ (~HasDuplicateId(sizes) /\ ~HasCycle(sizes)) => result.err.kind = "Unresolvable"

(* C26: a Reference whose target is a batch axis, an axis id its tensor    *)
(* does not have, or an axis of a tensor that does not exist is not among  *)
(* the collected sizes, and once the non-empty and duplicate tensor id     *)
(* checks have passed try_build fails with AxisSizeResolutionError         *)
(* wrapping Unresolvable, unless another failure of the resolver is met    *)
(* first.                                                                  *)
C26_MissingTargetUnresolvable ==
    /\ [](C26_ReturnsResolverError)
    /\ (call = "try_build" /\ pc = "try_build" /\ EarlyChecksPass /\ MissingTargets # {})
            ~> BuildErr("AxisSizeResolutionError")
=============================================================================
